---- MODULE Spec2Model ----
(***************************************************************************)
(* healflow-cloud: the rule-check engine (app/engine/validator.py), the    *)
(* diagnosis and healing functions (app/engine/healer.py), the causal log  *)
(* (app/engine/causal_log.py) and the validate -> diagnose -> heal ->      *)
(* re-validate loop of the /run-upload handler (app/main.py).              *)
(*                                                                         *)
(* Python dicts are TLA+ functions with string domains (a missing key is   *)
(* a missing domain element), lists are sequences, and a dict whose        *)
(* iteration order matters is a sequence of <<key, value>> pairs.  Python  *)
(* floats are exact fractions <<numerator, denominator>> in lowest terms.  *)
(* A pandas DataFrame is the record of the quantities validator.py reads   *)
(* from it.                                                                *)
(***************************************************************************)
EXTENDS Integers, Sequences, FiniteSets, TLC

\* ------------------------------------------------------------------ bounds
MaxRows == 2
MaxDelta == 2
\* engine calls a direct caller of the engine makes
MaxCalls == 3
\* seconds the UTC clock advances while concurrent writers append
MaxClock == 1
\* uploads one user submits one after the other
MaxUploads == 3

\* ----------------------------------------------------------------- helpers
NoneS == "None"
NoneF == <<>>

RECURSIVE GCD(_, _)
GCD(a, b) == IF b = 0 THEN a ELSE GCD(b, a % b)

F(n, d) == LET g == GCD(n, d) IN <<n \div g, d \div g>>
FLt(a, b) == a[1] * b[2] < b[1] * a[2]
FLe(a, b) == a[1] * b[2] <= b[1] * a[2]
FAdd(a, b) == F(a[1] * b[2] + b[1] * a[2], a[2] * b[2])
FSub(a, b) == F(a[1] * b[2] - b[1] * a[2], a[2] * b[2])
\* Python's max(a, b) / min(a, b): the first argument wins a tie
FMax(a, b) == IF FLt(a, b) THEN b ELSE a
FMin(a, b) == IF FLt(b, a) THEN b ELSE a

Get(d, k, default) == IF k \in DOMAIN d THEN d[k] ELSE default
\* d.setdefault(k, {})[k2] = v
SetIn(d, k, k2, v) ==
    LET inner == Get(d, k, <<>>)
        inner2 == [x \in (DOMAIN inner) \cup {k2} |-> IF x = k2 THEN v ELSE inner[x]]
    IN [x \in (DOMAIN d) \cup {k} |-> IF x = k THEN inner2 ELSE d[x]]

ToSet(s) == {s[i] : i \in DOMAIN s}
Contains(s, x) == \E i \in DOMAIN s : s[i] = x

\* ------------------------------------------------------------ causal log
VARIABLES
    utcnow,         \* datetime.utcnow(), in whole seconds
    sink_ok         \* whether logs/causal_memory.log can be opened for appending

\* log_causal_event: the record appended to logs/causal_memory.log
\* datetime.utcnow().isoformat(timespec="seconds") + "Z"
Timestamp(t) == <<t, "Z">>

log_causal_event_untimed(event_type, details) ==
    [x \in {"event_type"} \cup DOMAIN details |->
        IF x = "event_type" THEN event_type ELSE details[x]]

log_causal_event(event_type, details) ==
    [x \in {"timestamp", "event_type"} \cup DOMAIN details |->
        IF x = "timestamp" THEN Timestamp(utcnow)
        ELSE IF x = "event_type" THEN event_type ELSE details[x]]

write_lines_truncating(lines, events) ==
    IF events = <<>> THEN lines ELSE <<events[Len(events)]>>

\* open(CAUSAL_LOG_PATH, "a") and f.write(json.dumps(event) + "\n"), once for
\* each event: the lines of the file afterwards
write_lines(lines, events) == lines \o events

\* json.dumps(event) + "\n": the text of one record, as the chunk holding the
\* JSON object followed by the newline character
Newline == [text |-> "\n"]
Line(event) == <<[text |-> "json", json |-> event], Newline>>

os_write_at_offset(content, pos, data) ==
    SubSeq(content, 1, pos) \o data \o SubSeq(content, pos + Len(data) + 1, Len(content))

\* write(2) on a descriptor opened with O_APPEND (mode "a"): the offset is set
\* to the end of the file and the data written there in one step, whatever
\* the descriptor's own offset was
os_write(content, pos, data) == content \o data

\* Python's None where a dict is expected
NoneD == [none |-> TRUE]

\* ------------------------------------------------------------ exceptions
NoExc ==
    [type |-> NoneS, kind |-> NoneS, column |-> NoneS, observed |-> NoneF,
     threshold |-> NoneF, missing_columns |-> <<>>]

SchemaDriftError(missing_columns) ==
    [type |-> "SchemaDriftError", kind |-> NoneS, column |-> NoneS,
     observed |-> NoneF, threshold |-> NoneF, missing_columns |-> missing_columns]

DataQualityError(kind, column, observed, threshold) ==
    [type |-> "DataQualityError", kind |-> kind, column |-> column,
     observed |-> observed, threshold |-> threshold, missing_columns |-> <<>>]

\* open() raises OSError when the log file cannot be opened
OSError == [NoExc EXCEPT !.type = "OSError"]

\* A function calls log_causal_event(event) and then raises exc (or returns,
\* when exc is NoExc): log_causal_event has no try block, so the OSError of an
\* unavailable sink is raised in place of what would have followed.
Logged(event, exc) ==
    IF sink_ok
    THEN [exc |-> exc, events |-> <<event>>]
    ELSE [exc |-> OSError, events |-> <<>>]

\* ---------------------------------------------------------------- DQConfig
build_dq_config(config) ==
    LET dq == Get(config, "data_quality", <<>>)
        schema == Get(config, "schema", <<>>)
        freshness_cfg == Get(config, "freshness", <<>>)
    IN [max_null_fraction |-> Get(dq, "max_null_fraction", F(1, 1)),
        min_row_count |-> Get(dq, "min_row_count", 0),
        required_columns |-> Get(schema, "required_columns", <<>>),
        unique_keys |-> Get(dq, "unique_keys", <<>>),
        column_types |-> Get(schema, "column_types", <<>>),
        allowed_values |-> Get(config, "allowed_values", <<>>),
        freshness_date_column |-> Get(freshness_cfg, "date_column", NoneS),
        freshness_max_days_delay |-> Get(freshness_cfg, "max_days_delay", 0)]

\* ------------------------------------------------------------------ checks
\* A check yields the exception it raises (NoExc when it returns) and the
\* events it appends to the causal log.
Pass == [exc |-> NoExc, events |-> <<>>]

_check_row_count_exclusive(df, cfg, pipeline_name) ==
    IF df.len <= cfg.min_row_count
    THEN Logged(log_causal_event("dq_failure",
                        [pipeline_name |-> pipeline_name, reason |-> "row_count"]),
                DataQualityError("row_count", NoneS, F(df.len, 1), F(cfg.min_row_count, 1)))
    ELSE Pass

_check_row_count(df, cfg, pipeline_name) ==
    IF df.len < cfg.min_row_count
    THEN Logged(log_causal_event("dq_failure",
                        [pipeline_name |-> pipeline_name, reason |-> "row_count"]),
                DataQualityError("row_count", NoneS, F(df.len, 1), F(cfg.min_row_count, 1)))
    ELSE Pass

\* df[col].isna().mean() is NaN on an empty frame, and NaN > x is False
_check_null_fraction(df, cfg, pipeline_name) ==
    LET col == "sales_amount" IN
    IF col \in df.columns /\ df.len > 0
    THEN LET null_frac == F(df.isna, df.len) IN
         IF FLt(cfg.max_null_fraction, null_frac)
         THEN Logged(log_causal_event("dq_failure",
                             [pipeline_name |-> pipeline_name, reason |-> "null_fraction",
                              column |-> col, observed |-> null_frac,
                              threshold |-> cfg.max_null_fraction]),
                DataQualityError("null_fraction", col, null_frac, cfg.max_null_fraction))
         ELSE Pass
    ELSE Pass

_check_schema_first_only(df, cfg, pipeline_name) ==
    LET missing == SelectSeq(cfg.required_columns, LAMBDA c : c \notin df.columns) IN
    IF missing # <<>>
    THEN Logged(log_causal_event("schema_drift_detected",
                        [pipeline_name |-> pipeline_name, missing_columns |-> <<Head(missing)>>]),
                SchemaDriftError(<<Head(missing)>>))
    ELSE Pass

_check_schema(df, cfg, pipeline_name) ==
    LET missing == SelectSeq(cfg.required_columns, LAMBDA c : c \notin df.columns) IN
    IF missing # <<>>
    THEN Logged(log_causal_event("schema_drift_detected",
                        [pipeline_name |-> pipeline_name, missing_columns |-> missing]),
                SchemaDriftError(missing))
    ELSE Pass

\* the first key column, in unique_keys order, that is present with duplicates
_check_uniqueness(df, cfg, pipeline_name) ==
    LET bad == SelectSeq(cfg.unique_keys,
                         LAMBDA c : c \in df.columns /\ c \in df.duplicated) IN
    IF bad # <<>>
    THEN Logged(log_causal_event("dq_failure",
                        [pipeline_name |-> pipeline_name, reason |-> "uniqueness",
                         column |-> Head(bad)]),
                DataQualityError("uniqueness", Head(bad), NoneF, NoneF))
    ELSE Pass

\* pd.to_numeric(..., errors="raise") for "float" and "int"; "str" cannot
\* fail and any other type name is not checked
_check_column_types(df, cfg, pipeline_name) ==
    LET bad == SelectSeq(cfg.column_types,
                         LAMBDA p : /\ p[1] \in df.columns
                                    /\ p[2] \in {"float", "int"}
                                    /\ p[1] \in df.non_numeric) IN
    IF bad # <<>>
    THEN Logged(log_causal_event("dq_failure",
                        [pipeline_name |-> pipeline_name, reason |-> "type_mismatch",
                         column |-> Head(bad)[1], expected_type |-> Head(bad)[2]]),
                DataQualityError("type_mismatch", Head(bad)[1], NoneF, NoneF))
    ELSE Pass

\* set(df[col].dropna().unique()) - set(allowed)
_check_allowed_values(df, cfg, pipeline_name) ==
    LET bad == SelectSeq(cfg.allowed_values,
                         LAMBDA p : /\ p[1] \in df.columns
                                    /\ df.unique[p[1]] \ p[2] # {}) IN
    IF bad # <<>>
    THEN Logged(log_causal_event("dq_failure",
                        [pipeline_name |-> pipeline_name, reason |-> "allowed_values",
                         column |-> Head(bad)[1],
                         unexpected_values |-> df.unique[Head(bad)[1]] \ Head(bad)[2]]),
                DataQualityError("allowed_values", Head(bad)[1], NoneF, NoneF))
    ELSE Pass

\* the body of the try block: pd.to_datetime / .max().date() raise on a column
\* that does not parse, and a stale date logs dq_failure and raises
_check_freshness_try(df, cfg, pipeline_name) ==
    LET col == cfg.freshness_date_column IN
    IF ~df.to_datetime_ok
    THEN [exc |-> [NoExc EXCEPT !.type = "Exception"], events |-> <<>>]
    ELSE IF df.delta_days > cfg.freshness_max_days_delay
    THEN Logged(log_causal_event("dq_failure",
                        [pipeline_name |-> pipeline_name, reason |-> "freshness",
                         column |-> col, delta_days |-> df.delta_days,
                         threshold_days |-> cfg.freshness_max_days_delay]),
                DataQualityError("freshness", col, F(df.delta_days, 1),
                                   F(cfg.freshness_max_days_delay, 1)))
    ELSE Pass

\* "except Exception: pass" encloses the raise of the freshness failure:
\* whatever the try block raises, the check returns normally
_check_freshness(df, cfg, pipeline_name) ==
    IF cfg.freshness_date_column = NoneS \/ cfg.freshness_max_days_delay = 0
    THEN Pass
    ELSE IF cfg.freshness_date_column \notin df.columns
    THEN Pass
    ELSE [exc |-> NoExc, events |-> _check_freshness_try(df, cfg, pipeline_name).events]

\* ---------------------------------------------------------- run_validation
Checks(df, cfg, pipeline_name) ==
    << _check_row_count(df, cfg, pipeline_name),
       _check_null_fraction(df, cfg, pipeline_name),
       _check_schema(df, cfg, pipeline_name),
       _check_uniqueness(df, cfg, pipeline_name),
       _check_column_types(df, cfg, pipeline_name),
       _check_allowed_values(df, cfg, pipeline_name),
       _check_freshness(df, cfg, pipeline_name) >>

\* the checks run in sequence; the first one that raises ends the call
RECURSIVE RunChecks(_, _, _)
RunChecks(cs, i, events) ==
    IF i > Len(cs)
    THEN [exc |-> NoExc, events |-> events]
    ELSE IF cs[i].exc # NoExc
    THEN [exc |-> cs[i].exc, events |-> events \o cs[i].events]
    ELSE RunChecks(cs, i + 1, events \o cs[i].events)

run_validation_schema_late(df, config, pipeline_name) ==
    LET dq_cfg == build_dq_config(config)
        cs == Checks(df, dq_cfg, pipeline_name)
        r == RunChecks(<<cs[1], cs[2], cs[4], cs[3], cs[5], cs[6], cs[7]>>, 1, <<>>)
        done == Logged(log_causal_event("validation_success",
                           [pipeline_name |-> pipeline_name, rows |-> df.len]), NoExc)
    IN IF r.exc # NoExc
       THEN r
       ELSE [exc |-> done.exc, events |-> r.events \o done.events]

run_validation_silent(df, config, pipeline_name) ==
    RunChecks(Checks(df, build_dq_config(config), pipeline_name), 1, <<>>)

run_validation(df, config, pipeline_name) ==
    LET dq_cfg == build_dq_config(config)
        r == RunChecks(Checks(df, dq_cfg, pipeline_name), 1, <<>>)
        done == Logged(log_causal_event("validation_success",
                           [pipeline_name |-> pipeline_name, rows |-> df.len]), NoExc)
    IN IF r.exc # NoExc
       THEN r
       ELSE [exc |-> done.exc, events |-> r.events \o done.events]

\* ------------------------------------------------------------------ healer
\* A healer call is given the caller's dict object.  It yields `config`, the
\* contents of that object when the call ends, `ret`, what it returns (None
\* when it raises), `exc`, what it raises, and the events it appends.
NoDiagnosis == [root_cause |-> NoneS, suggested_actions |-> <<>>]

diagnose_schema_drift_always_rename(missing_columns, config) ==
    LET diagnosis == [pipeline_name |-> Get(config, "pipeline_name", "unknown"),
                      root_cause |-> "schema_drift",
                      missing_columns |-> missing_columns,
                      suggested_actions |->
                          <<[type |-> "schema_update", from |-> "date_of_sale",
                             to |-> "txn_date"]>>]
        logged == Logged(log_causal_event("diagnosis", diagnosis), NoExc)
    IN [config |-> config, ret |-> IF logged.exc = NoExc THEN diagnosis ELSE NoneD,
        exc |-> logged.exc, events |-> logged.events]

diagnose_schema_drift(missing_columns, config) ==
    LET pipeline_name == Get(config, "pipeline_name", "unknown")
        suggested_actions ==
            IF Contains(missing_columns, "date_of_sale")
            THEN <<[type |-> "schema_update", from |-> "date_of_sale", to |-> "txn_date"]>>
            ELSE <<[type |-> "no_safe_fix"]>>
        diagnosis == [pipeline_name |-> pipeline_name,
                      root_cause |-> "schema_drift",
                      missing_columns |-> missing_columns,
                      suggested_actions |-> suggested_actions]
        logged == Logged(log_causal_event("diagnosis", diagnosis), NoExc)
    IN [config |-> config, ret |-> IF logged.exc = NoExc THEN diagnosis ELSE NoneD,
        exc |-> logged.exc, events |-> logged.events]

apply_schema_healing_everywhere(config, diagnosis) ==
    LET actions == Get(diagnosis, "suggested_actions", <<>>) IN
    IF actions = <<>> \/ Get(actions[1], "type", NoneS) # "schema_update"
    THEN [config |-> config, ret |-> config, exc |-> NoExc, events |-> <<>>]
    ELSE LET old_cols == Get(Get(config, "schema", <<>>), "required_columns", <<>>)
             new_cols == [i \in DOMAIN old_cols |->
                            IF old_cols[i] = actions[1].from THEN actions[1].to
                            ELSE old_cols[i]]
             renamed == SetIn(config, "schema", "required_columns", new_cols)
             mutated == IF Get(Get(config, "freshness", <<>>), "date_column", NoneS) =
                              actions[1].from
                        THEN SetIn(renamed, "freshness", "date_column", actions[1].to)
                        ELSE renamed
             logged == Logged(log_causal_event("healing_applied",
                           [action_type |-> "schema_update", from |-> actions[1].from,
                            to |-> actions[1].to, old_required_columns |-> old_cols,
                            new_required_columns |-> new_cols]), NoExc)
         IN [config |-> mutated, ret |-> mutated, exc |-> logged.exc,
             events |-> logged.events]

apply_schema_healing_appending(config, diagnosis) ==
    LET actions == Get(diagnosis, "suggested_actions", <<>>) IN
    IF actions = <<>> \/ Get(actions[1], "type", NoneS) # "schema_update"
    THEN [config |-> config, ret |-> config, exc |-> NoExc, events |-> <<>>]
    ELSE LET old_cols == Get(Get(config, "schema", <<>>), "required_columns", <<>>)
             new_cols == Append(old_cols, actions[1].to)
             mutated == SetIn(config, "schema", "required_columns", new_cols)
             logged == Logged(log_causal_event("healing_applied",
                           [action_type |-> "schema_update", from |-> actions[1].from,
                            to |-> actions[1].to, old_required_columns |-> old_cols,
                            new_required_columns |-> new_cols]), NoExc)
         IN [config |-> mutated, ret |-> mutated, exc |-> logged.exc,
             events |-> logged.events]

apply_schema_healing_unrenamed(config, diagnosis) ==
    LET actions == Get(diagnosis, "suggested_actions", <<>>) IN
    IF actions = <<>> \/ Get(actions[1], "type", NoneS) # "schema_update"
    THEN [config |-> config, ret |-> config, exc |-> NoExc, events |-> <<>>]
    ELSE LET old_cols == Get(Get(config, "schema", <<>>), "required_columns", <<>>)
             logged == Logged(log_causal_event("healing_applied",
                           [action_type |-> "schema_update", from |-> actions[1].from,
                            to |-> actions[1].to, old_required_columns |-> old_cols,
                            new_required_columns |-> old_cols]), NoExc)
         IN [config |-> config, ret |-> config, exc |-> logged.exc,
             events |-> logged.events]

\* Every return statement of a healing function is "return config": the
\* returned object is the caller's object.  The assignment into it precedes
\* the log_causal_event call, so it stands when that call raises.
apply_schema_healing(config, diagnosis) ==
    LET actions == Get(diagnosis, "suggested_actions", <<>>) IN
    IF actions = <<>>
    THEN [config |-> config, ret |-> config, exc |-> NoExc, events |-> <<>>]
    ELSE LET action == actions[1] IN
    IF Get(action, "type", NoneS) # "schema_update"
    THEN [config |-> config, ret |-> config, exc |-> NoExc, events |-> <<>>]
    ELSE LET from_col == action.from
             to_col == action.to
             old_cols == Get(Get(config, "schema", <<>>), "required_columns", <<>>)
             new_cols == [i \in DOMAIN old_cols |->
                            IF old_cols[i] = from_col THEN to_col ELSE old_cols[i]]
             mutated == SetIn(config, "schema", "required_columns", new_cols)
             logged == Logged(log_causal_event("healing_applied",
                           [action_type |-> "schema_update", from |-> from_col,
                            to |-> to_col, old_required_columns |-> old_cols,
                            new_required_columns |-> new_cols]), NoExc)
         IN [config |-> mutated,
             ret |-> IF logged.exc = NoExc THEN mutated ELSE NoneD,
             exc |-> logged.exc, events |-> logged.events]

\* "err.threshold or 0.0": None and 0.0 both give 0.0
OrZero(x) == IF x = NoneF THEN F(0, 1) ELSE x

new_threshold_unclamped(err) == FMax(FAdd(err.observed, F(5, 100)), OrZero(err.threshold))

new_threshold_lowered(err) ==
    FMin(FMax(FSub(err.observed, F(5, 100)), OrZero(err.threshold)), F(1, 1))

new_threshold(err) ==
    FMin(FMax(FAdd(err.observed, F(5, 100)), OrZero(err.threshold)), F(1, 1))

diagnose_dq_issue_mutating(err, config) ==
    LET diag == [pipeline_name |-> Get(config, "pipeline_name", "unknown"),
                 root_cause |-> IF err.kind = NoneS THEN "dq_failure" ELSE err.kind,
                 column |-> err.column,
                 observed |-> err.observed,
                 threshold |-> err.threshold,
                 suggested_actions |-> <<[type |-> "no_safe_fix"]>>]
        logged == Logged(log_causal_event("dq_diagnosis", diag), NoExc)
    IN [config |-> SetIn(config, "data_quality", "max_null_fraction", F(1, 1)),
        ret |-> diag, exc |-> logged.exc, events |-> logged.events]

diagnose_dq_issue(err, config) ==
    LET pipeline_name == Get(config, "pipeline_name", "unknown")
        suggested_actions ==
            IF err.kind = "null_fraction" /\ err.column # NoneS /\ err.observed # NoneF
            THEN <<[type |-> "dq_update_max_null", column |-> err.column,
                    new_threshold |-> new_threshold(err)]>>
            ELSE <<[type |-> "no_safe_fix"]>>
        diag == [pipeline_name |-> pipeline_name,
                 root_cause |-> IF err.kind = NoneS THEN "dq_failure" ELSE err.kind,
                 column |-> err.column,
                 observed |-> err.observed,
                 threshold |-> err.threshold,
                 suggested_actions |-> suggested_actions]
        logged == Logged(log_causal_event("dq_diagnosis", diag), NoExc)
    IN [config |-> config, ret |-> IF logged.exc = NoExc THEN diag ELSE NoneD,
        exc |-> logged.exc, events |-> logged.events]

apply_dq_healing(config, diagnosis) ==
    LET actions == Get(diagnosis, "suggested_actions", <<>>) IN
    IF actions = <<>>
    THEN [config |-> config, ret |-> config, exc |-> NoExc, events |-> <<>>]
    ELSE LET action == actions[1] IN
    IF Get(action, "type", NoneS) = "dq_update_max_null"
    THEN LET new_thr == action.new_threshold
             mutated == SetIn(config, "data_quality", "max_null_fraction", new_thr)
             logged == Logged(log_causal_event("healing_applied",
                           [action_type |-> "dq_update_max_null",
                            column |-> Get(action, "column", NoneS),
                            new_threshold |-> new_thr]), NoExc)
         IN [config |-> mutated,
             ret |-> IF logged.exc = NoExc THEN mutated ELSE NoneD,
             exc |-> logged.exc, events |-> logged.events]
    ELSE [config |-> config, ret |-> config, exc |-> NoExc, events |-> <<>>]

\* ------------------------------------------------------------------ inputs
Cols == {"transaction_id", "sales_amount", "date_of_sale", "txn_date", "region"}
RegionValues == {"US", "XX"}

\* The uploaded file as pandas loads it: len(df), df.columns, the number of
\* missing sales_amount cells, the columns with duplicated cells, the columns
\* pd.to_numeric rejects, the distinct non-missing cells of each column, and
\* for the freshness date column whether pd.to_datetime accepts it and the
\* days between today and its latest date.
DataFrame(len, columns, isna, duplicated, non_numeric, region_unique, ok, delta) ==
    [len |-> len, columns |-> columns, isna |-> isna, duplicated |-> duplicated,
     non_numeric |-> non_numeric,
     unique |-> [c \in columns |-> IF c = "region" THEN region_unique
                                   ELSE IF len = 0 THEN {} ELSE {"x"}],
     to_datetime_ok |-> ok, delta_days |-> delta]

DataFrames ==
    { DataFrame(r.len, r.columns, r.isna, r.duplicated, r.non_numeric,
                r.region_unique, r.ok, r.delta) :
      r \in { q \in [len : 0..MaxRows, columns : SUBSET Cols, isna : 0..MaxRows,
                     duplicated : SUBSET {"transaction_id"},
                     non_numeric : SUBSET {"sales_amount"},
                     region_unique : SUBSET RegionValues,
                     ok : BOOLEAN, delta : 0..MaxDelta] :
                /\ q.isna <= q.len
                /\ "sales_amount" \notin q.columns => q.isna = 0
                /\ q.duplicated \subseteq q.columns
                /\ q.duplicated # {} => q.len >= 2
                /\ q.non_numeric \subseteq q.columns
                /\ q.non_numeric # {} => q.isna < q.len
                /\ Cardinality(q.region_unique) = IF "region" \in q.columns /\ q.len > 0
                                                  THEN 1 ELSE 0
                /\ q.ok => "date_of_sale" \in q.columns /\ q.len >= 1
                /\ ~q.ok => q.delta = 0 } }

\* the configuration documents a user can submit: the default document of
\* main.py with each rule varied or left out
ConfigDoc(mnf, mrc, uk, rc, ct, av, fr) ==
    [pipeline_name |-> "daily_sales_processing",
     data_quality |-> [max_null_fraction |-> mnf, min_row_count |-> mrc, unique_keys |-> uk],
     schema |-> [required_columns |-> rc, column_types |-> ct],
     allowed_values |-> av,
     freshness |-> fr]

Freshness(days) == [date_column |-> "date_of_sale", max_days_delay |-> days]

\* unique_keys, column_types and allowed_values of the default document, or none
RuleSets ==
    { << <<"transaction_id">>,
         << <<"sales_amount", "float">> >>,
         << <<"region", {"APAC", "EMEA", "US"}>> >> >>,
      << <<>>, <<>>, <<>> >> }

ConfigDocs ==
    { ConfigDoc(dq[1], dq[2], rs[1], rc, rs[2], rs[3], fr) :
        dq \in {<<F(5, 100), 2>>, <<F(1, 2), 0>>},
        rs \in RuleSets,
        rc \in {<<"transaction_id", "sales_amount", "date_of_sale">>,
                <<"date_of_sale", "txn_date">>,
                <<"transaction_id", "region">>},
        fr \in {<<>>, Freshness(1)} }
    \cup { [pipeline_name |-> "daily_sales_processing"],
           [schema |-> [required_columns |-> <<"date_of_sale">>]] }

\* yaml.safe_load / yaml.safe_dump: a YAML text is modelled by the document it
\* denotes
safe_load(text) == text.doc
safe_dump(data) == [doc |-> data]

\* ------------------------------------------------------------------- state
VARIABLES
    pc,             \* position of the /run-upload handler
    df,             \* the uploaded dataset
    yaml_text,      \* the submitted configuration text
    config,         \* contents of the dict object parsed from yaml_text
    e,              \* exception of the first validation
    diagnosis,
    healed_config,  \* contents of the object the healing function returned
    healed_yaml,
    e2,             \* exception of the re-validation
    message,
    attempts,       \* Metrics.attempts
    successes,      \* Metrics.successes
    incidents,      \* Incident rows added, oldest first
    log,            \* lines of logs/causal_memory.log
    file,           \* logs/causal_memory.log as the operating system holds it: the
                    \* chunks written to it, in order
    writers,        \* the processes appending to the log concurrently: for each
                    \* its position in log_causal_event, the events it has yet
                    \* to record and the text its open file object buffers
    calls           \* the engine calls of this invocation, in order, each with
                    \* its configuration argument before and after the call,
                    \* its result and the events it appended

vars == <<pc, df, yaml_text, config, e, diagnosis, healed_config, healed_yaml,
          e2, message, attempts, successes, incidents, log, calls,
          utcnow, sink_ok, file, writers>>

\* what the /run-upload handler leaves alone
env == <<utcnow, sink_ok, file, writers>>


pipeline_name == Get(safe_load(yaml_text), "pipeline_name", "user_pipeline")

Call(fn, config_in, config_out, ret, exc, events) ==
    [fn |-> fn, config_in |-> config_in, config_out |-> config_out, ret |-> ret,
     exc |-> exc, events |-> events]

Incident(incident_type, status) == [incident_type |-> incident_type, status |-> status]

Init ==
    /\ yaml_text \in {safe_dump(c) : c \in ConfigDocs}
    /\ config = safe_load(yaml_text)
    /\ df \in DataFrames
    /\ pc = "run_validation"
    /\ e = NoExc
    /\ e2 = NoExc
    /\ diagnosis = NoDiagnosis
    /\ healed_config = NoneD
    /\ healed_yaml = NoneD
    /\ message = ""
    /\ attempts = 0
    /\ successes = 0
    /\ incidents = <<>>
    /\ log = <<>>
    /\ calls = <<>>
    /\ utcnow = 0
    /\ sink_ok = TRUE
    /\ file = <<>>
    /\ writers = <<>>

FirstValidation_uncounted ==
    /\ pc = "run_validation"
    /\ LET r == run_validation(df, config, pipeline_name) IN
       /\ log' = write_lines(log, r.events)
       /\ calls' = Append(calls, Call("run_validation", config, config, NoneD, r.exc, r.events))
       /\ IF r.exc = NoExc
          THEN /\ incidents' = Append(incidents, Incident("run", "success"))
               /\ message' = "passed_without_healing"
               /\ pc' = "done"
               /\ UNCHANGED e
          ELSE /\ e' = r.exc
               /\ incidents' = Append(incidents,
                     Incident(IF r.exc.type = "SchemaDriftError" THEN "schema_drift"
                              ELSE "data_quality", "failed"))
               /\ pc' = IF r.exc.type = "SchemaDriftError" THEN "diagnose_schema_drift"
                        ELSE "diagnose_dq_issue"
               /\ UNCHANGED message
    /\ UNCHANGED <<env, df, yaml_text, config, diagnosis, healed_config, healed_yaml,
                   e2, successes, attempts>>

FirstValidation_dumps_config ==
    /\ pc = "run_validation"
    /\ LET r == run_validation(df, config, pipeline_name) IN
       /\ log' = write_lines(log, r.events)
       /\ calls' = Append(calls, Call("run_validation", config, config, NoneD, r.exc, r.events))
       /\ healed_yaml' = safe_dump(config)
       /\ IF r.exc = NoExc
          THEN /\ incidents' = Append(incidents, Incident("run", "success"))
               /\ message' = "passed_without_healing"
               /\ pc' = "done"
               /\ UNCHANGED <<e, attempts>>
          ELSE /\ e' = r.exc
               /\ attempts' = attempts + 1
               /\ incidents' = Append(incidents,
                     Incident(IF r.exc.type = "SchemaDriftError" THEN "schema_drift"
                              ELSE "data_quality", "failed"))
               /\ pc' = IF r.exc.type = "SchemaDriftError" THEN "diagnose_schema_drift"
                        ELSE "diagnose_dq_issue"
               /\ UNCHANGED message
    /\ UNCHANGED <<env, df, yaml_text, config, diagnosis, healed_config, e2, successes>>

\* main.py 208-232, 262-274: the first validation and the except clause it
\* selects
FirstValidation ==
    /\ pc = "run_validation"
    /\ LET r == run_validation(df, config, pipeline_name) IN
       /\ log' = write_lines(log, r.events)
       /\ calls' = Append(calls, Call("run_validation", config, config, NoneD, r.exc, r.events))
       /\ IF r.exc = NoExc
          THEN /\ incidents' = Append(incidents, Incident("run", "success"))
               /\ message' = "passed_without_healing"
               /\ pc' = "done"
               /\ UNCHANGED <<e, attempts>>
          ELSE IF r.exc.type = "SchemaDriftError"
          THEN /\ e' = r.exc
               /\ attempts' = attempts + 1
               /\ incidents' = Append(incidents, Incident("schema_drift", "failed"))
               /\ pc' = "diagnose_schema_drift"
               /\ UNCHANGED message
          ELSE IF r.exc.type = "DataQualityError"
          THEN /\ e' = r.exc
               /\ attempts' = attempts + 1
               /\ incidents' = Append(incidents, Incident("data_quality", "failed"))
               /\ pc' = "diagnose_dq_issue"
               /\ UNCHANGED message
          ELSE /\ pc' = "error"
               /\ UNCHANGED <<e, attempts, incidents, message>>
    /\ UNCHANGED <<env, df, yaml_text, config, diagnosis, healed_config, healed_yaml,
                   e2, successes>>

\* main.py 234
DiagnoseSchemaDrift ==
    /\ pc = "diagnose_schema_drift"
    /\ LET d == diagnose_schema_drift(e.missing_columns, config) IN
       /\ config' = d.config
       /\ log' = write_lines(log, d.events)
       /\ calls' = Append(calls, Call("diagnose_schema_drift", config, d.config, d.ret,
                                      d.exc, d.events))
       /\ IF d.exc = NoExc
          THEN diagnosis' = d.ret /\ pc' = "apply_schema_healing"
          ELSE UNCHANGED diagnosis /\ pc' = "error"
    /\ UNCHANGED <<env, df, yaml_text, e, healed_config, healed_yaml, e2,
                   message, attempts, successes, incidents>>

\* main.py 235-236
ApplySchemaHealing ==
    /\ pc = "apply_schema_healing"
    /\ LET h == apply_schema_healing(config, diagnosis) IN
       /\ config' = h.config
       /\ log' = write_lines(log, h.events)
       /\ calls' = Append(calls, Call("apply_schema_healing", config, h.config, h.ret,
                                      h.exc, h.events))
       /\ IF h.exc = NoExc
          THEN /\ healed_config' = h.ret
               /\ healed_yaml' = safe_dump(h.ret)
               /\ pc' = "revalidate_schema"
          ELSE /\ UNCHANGED <<healed_config, healed_yaml>>
               /\ pc' = "error"
    /\ UNCHANGED <<env, df, yaml_text, e, diagnosis, e2, message, attempts, successes,
                   incidents>>

RevalidateSchema_crossover ==
    /\ pc = "revalidate_schema"
    /\ LET r == run_validation(df, healed_config, pipeline_name) IN
       /\ log' = write_lines(log, r.events)
       /\ IF r.exc = NoExc
          THEN /\ incidents' = Append(incidents, Incident("post_healing", "success"))
               /\ successes' = successes + 1
               /\ message' = "schema_drift_healed"
               /\ pc' = "done"
               /\ UNCHANGED <<e, e2>>
          ELSE IF r.exc.type = "DataQualityError"
          THEN /\ e' = r.exc
               /\ incidents' = Append(incidents, Incident("data_quality", "failed"))
               /\ pc' = "diagnose_dq_issue"
               /\ UNCHANGED <<e2, message, successes>>
          ELSE /\ e2' = r.exc
               /\ incidents' = Append(incidents, Incident("post_healing", "failed"))
               /\ message' = "validation_failed_after_healing"
               /\ pc' = "done"
               /\ UNCHANGED <<e, successes>>
       /\ calls' = Append(calls, Call("run_validation", healed_config, healed_config,
                                      NoneD, r.exc, r.events))
    /\ UNCHANGED <<env, df, yaml_text, config, diagnosis, healed_config, healed_yaml,
                   attempts>>

\* main.py 238-260
RevalidateSchema ==
    /\ pc = "revalidate_schema"
    /\ LET r == run_validation(df, healed_config, pipeline_name) IN
       /\ log' = write_lines(log, r.events)
       /\ IF r.exc = NoExc
          THEN /\ incidents' = Append(incidents, Incident("post_healing", "success"))
               /\ successes' = successes + 1
               /\ message' = "schema_drift_healed"
               /\ UNCHANGED e2
          ELSE /\ e2' = r.exc
               /\ incidents' = Append(incidents, Incident("post_healing", "failed"))
               /\ message' = "validation_failed_after_healing"
               /\ UNCHANGED successes
       /\ calls' = Append(calls, Call("run_validation", healed_config, healed_config,
                                      NoneD, r.exc, r.events))
    /\ pc' = "done"
    /\ UNCHANGED <<env, df, yaml_text, config, e, diagnosis, healed_config, healed_yaml,
                   attempts>>

\* main.py 276
DiagnoseDqIssue ==
    /\ pc = "diagnose_dq_issue"
    /\ LET d == diagnose_dq_issue(e, config) IN
       /\ config' = d.config
       /\ log' = write_lines(log, d.events)
       /\ calls' = Append(calls, Call("diagnose_dq_issue", config, d.config, d.ret,
                                      d.exc, d.events))
       /\ IF d.exc = NoExc
          THEN diagnosis' = d.ret /\ pc' = "apply_dq_healing"
          ELSE UNCHANGED diagnosis /\ pc' = "error"
    /\ UNCHANGED <<env, df, yaml_text, e, healed_config, healed_yaml, e2,
                   message, attempts, successes, incidents>>

ApplyDqHealing_unlogged ==
    /\ pc = "apply_dq_healing"
    /\ LET h == apply_dq_healing(config, diagnosis) IN
       /\ config' = h.config
       /\ healed_config' = h.ret
       /\ healed_yaml' = safe_dump(h.ret)
       /\ calls' = Append(calls, Call("apply_dq_healing", config, h.config, h.ret,
                                      h.exc, h.events))
    /\ pc' = "revalidate_dq"
    /\ UNCHANGED <<env, df, yaml_text, e, diagnosis, e2, message, attempts, successes,
                   incidents, log>>

\* main.py 277-278
ApplyDqHealing ==
    /\ pc = "apply_dq_healing"
    /\ LET h == apply_dq_healing(config, diagnosis) IN
       /\ config' = h.config
       /\ log' = write_lines(log, h.events)
       /\ calls' = Append(calls, Call("apply_dq_healing", config, h.config, h.ret,
                                      h.exc, h.events))
       /\ IF h.exc = NoExc
          THEN /\ healed_config' = h.ret
               /\ healed_yaml' = safe_dump(h.ret)
               /\ pc' = "revalidate_dq"
          ELSE /\ UNCHANGED <<healed_config, healed_yaml>>
               /\ pc' = "error"
    /\ UNCHANGED <<env, df, yaml_text, e, diagnosis, e2, message, attempts, successes,
                   incidents>>

RevalidateDq_retry ==
    /\ pc = "revalidate_dq"
    /\ LET r == run_validation(df, healed_config, pipeline_name) IN
       /\ log' = write_lines(log, r.events)
       /\ IF r.exc = NoExc
          THEN /\ incidents' = Append(incidents, Incident("post_healing_dq", "success"))
               /\ successes' = successes + 1
               /\ message' = "data_quality_healed"
               /\ pc' = "done"
               /\ UNCHANGED e2
          ELSE /\ e2' = r.exc
               /\ incidents' = Append(incidents, Incident("post_healing_dq", "failed"))
               /\ message' = "data_quality_still_failing"
               /\ pc' = IF Len(calls) < 6 THEN "run_validation" ELSE "done"
               /\ UNCHANGED successes
       /\ calls' = Append(calls, Call("run_validation", healed_config, healed_config,
                                      NoneD, r.exc, r.events))
    /\ UNCHANGED <<env, df, yaml_text, config, e, diagnosis, healed_config, healed_yaml,
                   attempts>>

\* main.py 280-302
RevalidateDq ==
    /\ pc = "revalidate_dq"
    /\ LET r == run_validation(df, healed_config, pipeline_name) IN
       /\ log' = write_lines(log, r.events)
       /\ IF r.exc = NoExc
          THEN /\ incidents' = Append(incidents, Incident("post_healing_dq", "success"))
               /\ successes' = successes + 1
               /\ message' = "data_quality_healed"
               /\ UNCHANGED e2
          ELSE /\ e2' = r.exc
               /\ incidents' = Append(incidents, Incident("post_healing_dq", "failed"))
               /\ message' = "data_quality_still_failing"
               /\ UNCHANGED successes
       /\ calls' = Append(calls, Call("run_validation", healed_config, healed_config,
                                      NoneD, r.exc, r.events))
    /\ pc' = "done"
    /\ UNCHANGED <<env, df, yaml_text, config, e, diagnosis, healed_config, healed_yaml,
                   attempts>>

Next ==
    \/ FirstValidation
    \/ DiagnoseSchemaDrift
    \/ ApplySchemaHealing
    \/ RevalidateSchema
    \/ DiagnoseDqIssue
    \/ ApplyDqHealing
    \/ RevalidateDq

Spec == Init /\ [][Next]_vars

\* ------------------------------------------------- the engine, called directly
\* validator.py and healer.py are plain functions: a test or another service
\* calls them in any order, on any configuration, with any diagnosis dict.

\* datasets of one or two rows: complete, without date_of_sale, or with the two
\* leading columns only; a date column that parses is two days old
EngineFrames ==
    { d \in DataFrames :
        /\ d.len \in {1, 2}
        /\ d.isna <= 1
        /\ d.duplicated = {} /\ d.non_numeric = {}
        /\ d.columns \in {Cols, Cols \ {"date_of_sale"}, {"transaction_id", "sales_amount"}}
        /\ "region" \in d.columns => d.unique["region"] = {"US"}
        /\ d.to_datetime_ok => d.delta_days = 2 }

\* diagnosis dicts: without suggested_actions, with an empty list, with each
\* action the diagnosis functions propose
EngineDiagnoses ==
    { [root_cause |-> "unknown"],
      NoDiagnosis,
      [root_cause |-> "schema_drift", suggested_actions |-> <<[type |-> "no_safe_fix"]>>],
      [root_cause |-> "schema_drift",
       suggested_actions |-> <<[type |-> "schema_update", from |-> "date_of_sale",
                                to |-> "txn_date"]>>],
      [root_cause |-> "null_fraction",
       suggested_actions |-> <<[type |-> "dq_update_max_null", column |-> "sales_amount",
                                new_threshold |-> F(55, 100)]>>] }

InitEngine ==
    /\ yaml_text \in {safe_dump(c) : c \in ConfigDocs}
    /\ config = safe_load(yaml_text)
    /\ df \in EngineFrames
    /\ diagnosis \in EngineDiagnoses
    /\ pc = "engine"
    /\ e = NoExc
    /\ e2 = NoExc
    /\ healed_config = NoneD
    /\ healed_yaml = NoneD
    /\ message = ""
    /\ attempts = 0
    /\ successes = 0
    /\ incidents = <<>>
    /\ log = <<>>
    /\ calls = <<>>
    /\ utcnow = 0
    /\ sink_ok = TRUE
    /\ file = <<>>
    /\ writers = <<>>

\* what a direct caller of the engine does not hold
handler == <<df, yaml_text, healed_config, healed_yaml, e2, message, attempts,
             successes, incidents>>

\* run_validation(df, config, pipeline_name); the caller keeps what it raised
EngineValidate ==
    /\ pc = "engine" /\ Len(calls) < MaxCalls
    /\ LET r == run_validation(df, config, pipeline_name) IN
       /\ e' = r.exc
       /\ log' = write_lines(log, r.events)
       /\ calls' = Append(calls, Call("run_validation", config, config, NoneD,
                                      r.exc, r.events))
    /\ UNCHANGED <<env, handler, pc, config, diagnosis>>

EngineDiagnoseSchema ==
    /\ pc = "engine" /\ Len(calls) < MaxCalls
    /\ e.type = "SchemaDriftError"
    /\ LET d == diagnose_schema_drift(e.missing_columns, config) IN
       /\ config' = d.config
       /\ diagnosis' = d.ret
       /\ log' = write_lines(log, d.events)
       /\ calls' = Append(calls, Call("diagnose_schema_drift", config, d.config, d.ret,
                                      d.exc, d.events))
    /\ UNCHANGED <<env, handler, pc, e>>

EngineDiagnoseDq ==
    /\ pc = "engine" /\ Len(calls) < MaxCalls
    /\ e.type = "DataQualityError"
    /\ LET d == diagnose_dq_issue(e, config) IN
       /\ config' = d.config
       /\ diagnosis' = d.ret
       /\ log' = write_lines(log, d.events)
       /\ calls' = Append(calls, Call("diagnose_dq_issue", config, d.config, d.ret,
                                      d.exc, d.events))
    /\ UNCHANGED <<env, handler, pc, e>>

EngineApplySchema ==
    /\ pc = "engine" /\ Len(calls) < MaxCalls
    /\ LET h == apply_schema_healing(config, diagnosis) IN
       /\ config' = h.config
       /\ log' = write_lines(log, h.events)
       /\ calls' = Append(calls, Call("apply_schema_healing", config, h.config, h.ret,
                                      h.exc, h.events))
    /\ UNCHANGED <<env, handler, pc, e, diagnosis>>

EngineApplyDq ==
    /\ pc = "engine" /\ Len(calls) < MaxCalls
    /\ LET h == apply_dq_healing(config, diagnosis) IN
       /\ config' = h.config
       /\ log' = write_lines(log, h.events)
       /\ calls' = Append(calls, Call("apply_dq_healing", config, h.config, h.ret,
                                      h.exc, h.events))
    /\ UNCHANGED <<env, handler, pc, e, diagnosis>>

NextEngine ==
    \/ EngineValidate
    \/ EngineDiagnoseSchema
    \/ EngineDiagnoseDq
    \/ EngineApplySchema
    \/ EngineApplyDq

SpecEngine == InitEngine /\ [][NextEngine]_vars

\* ------------------------------------------------ the log sink becoming unavailable
\* An invocation of /run-upload during which logs/causal_memory.log stops being
\* writable (directory removed, permissions, disk full): from then on open()
\* raises OSError.
InitSink ==
    /\ yaml_text \in {safe_dump(c) : c \in ConfigDocs}
    /\ config = safe_load(yaml_text)
    /\ df \in EngineFrames
    /\ pc = "run_validation"
    /\ e = NoExc
    /\ e2 = NoExc
    /\ diagnosis = NoDiagnosis
    /\ healed_config = NoneD
    /\ healed_yaml = NoneD
    /\ message = ""
    /\ attempts = 0
    /\ successes = 0
    /\ incidents = <<>>
    /\ log = <<>>
    /\ calls = <<>>
    /\ utcnow = 0
    /\ sink_ok = TRUE
    /\ file = <<>>
    /\ writers = <<>>

SinkFails ==
    /\ sink_ok
    /\ pc \notin {"done", "error"}
    /\ sink_ok' = FALSE
    /\ UNCHANGED <<pc, df, yaml_text, config, e, diagnosis, healed_config, healed_yaml,
                   e2, message, attempts, successes, incidents, log, calls,
                   utcnow, file, writers>>

NextSink == Next \/ SinkFails

SpecSink == InitSink /\ [][NextSink]_vars

\* ------------------------------------------------------ concurrent log writers
\* Several invocations (worker processes of the server) inside
\* log_causal_event at once.  Each step of a writer is one statement of
\* log_causal_event; the steps of different writers interleave freely.
Writers == {"w1", "w2"}

\* the calls to log_causal_event an invocation of pipeline p makes
LogCalls(p) ==
    { << <<"validation_success", [pipeline_name |-> p, rows |-> 2]>> >>,
      << <<"dq_failure", [pipeline_name |-> p, reason |-> "row_count"]>>,
         <<"dq_diagnosis", [pipeline_name |-> p, root_cause |-> "row_count",
                            suggested_actions |-> <<[type |-> "no_safe_fix"]>>]>> >>,
      << <<"schema_drift_detected", [pipeline_name |-> p,
                                     missing_columns |-> <<"date_of_sale">>]>>,
         <<"schema_drift_detected", [pipeline_name |-> p,
                                     missing_columns |-> <<"date_of_sale">>]>> >> }

InitLog ==
    /\ writers \in { [w \in Writers |->
                        [pc |-> "call", todo |-> t[w], event |-> NoneD, pos |-> 0,
                         buf |-> <<>>, written |-> <<>>]] :
                     t \in { f \in [Writers -> UNION {LogCalls(p) : p \in Writers}] :
                                \A w \in Writers : f[w] \in LogCalls(w) } }
    /\ file = <<>>
    /\ utcnow = 0
    /\ sink_ok = TRUE
    /\ pc = "log_causal_event"
    /\ yaml_text = safe_dump([pipeline_name |-> "daily_sales_processing"])
    /\ config = safe_load(yaml_text)
    /\ df \in {d \in EngineFrames : d.columns = Cols /\ d.len = 2 /\ d.isna = 0
                                     /\ ~d.to_datetime_ok}
    /\ e = NoExc
    /\ e2 = NoExc
    /\ diagnosis = NoDiagnosis
    /\ healed_config = NoneD
    /\ healed_yaml = NoneD
    /\ message = ""
    /\ attempts = 0
    /\ successes = 0
    /\ incidents = <<>>
    /\ log = <<>>
    /\ calls = <<>>

\* what the writers leave alone
invocation == <<pc, df, yaml_text, config, e, diagnosis, healed_config, healed_yaml,
                e2, message, attempts, successes, incidents, log, calls, sink_ok>>

\* causal_log.py 12-16: event = {"timestamp": ..., "event_type": ..., **details}
WBuild(w) ==
    /\ writers[w].pc = "call" /\ writers[w].todo # <<>>
    /\ LET c == Head(writers[w].todo) IN
       writers' = [writers EXCEPT ![w].pc = "built",
                                  ![w].todo = Tail(@),
                                  ![w].event = log_causal_event(c[1], c[2])]
    /\ UNCHANGED <<invocation, utcnow, file>>

\* causal_log.py 17: open(CAUSAL_LOG_PATH, "a"); the offset starts at the end
WOpen(w) ==
    /\ writers[w].pc = "built" /\ sink_ok
    /\ writers' = [writers EXCEPT ![w].pc = "open", ![w].pos = Len(file)]
    /\ UNCHANGED <<invocation, utcnow, file>>

\* causal_log.py 18: f.write(...) leaves the text in the file object's buffer
WWrite(w) ==
    /\ writers[w].pc = "open"
    /\ writers' = [writers EXCEPT ![w].pc = "written", ![w].buf = Line(writers[w].event)]
    /\ UNCHANGED <<invocation, utcnow, file>>

\* causal_log.py 17-18: leaving the with block closes f, which flushes the
\* buffer in one write(2)
WClose(w) ==
    /\ writers[w].pc = "written"
    /\ file' = os_write(file, writers[w].pos, writers[w].buf)
    /\ writers' = [writers EXCEPT ![w].pc = "call", ![w].buf = <<>>,
                                  ![w].written = Append(@, writers[w].event)]
    /\ UNCHANGED <<invocation, utcnow>>

Tick ==
    /\ utcnow < MaxClock
    /\ \E w \in Writers : writers[w].pc # "call" \/ writers[w].todo # <<>>
    /\ utcnow' = utcnow + 1
    /\ UNCHANGED <<invocation, writers, file>>

NextLog ==
    \/ \E w \in Writers : WBuild(w)
    \/ \E w \in Writers : WOpen(w)
    \/ \E w \in Writers : WWrite(w)
    \/ \E w \in Writers : WClose(w)
    \/ Tick

SpecLog == InitLog /\ [][NextLog]_vars

\* ------------------------------------------------ one user's uploads in sequence
\* The Metrics row and the Incident rows of a user, and the log file, outlive
\* an invocation of /run-upload; everything else is local to it.

\* the default rules without the freshness rule, for two required-column lists
UploadConfigs ==
    { ConfigDoc(F(5, 100), 2, rs[1], rc, rs[2], rs[3], <<>>) :
        rs \in {r \in RuleSets : r[1] # <<>>},
        rc \in {<<"transaction_id", "sales_amount", "date_of_sale">>,
                <<"transaction_id", "region">>} }

UploadFrames ==
    { d \in EngineFrames :
        /\ ~d.to_datetime_ok
        /\ d.len = 1 => d.isna = 0 /\ d.columns = Cols }

\* main.py 93-96, 198-203: the Metrics row starts at attempts = 0, successes = 0
InitUploads ==
    /\ yaml_text \in {safe_dump(c) : c \in UploadConfigs}
    /\ config = safe_load(yaml_text)
    /\ df \in UploadFrames
    /\ pc = "run_validation"
    /\ e = NoExc
    /\ e2 = NoExc
    /\ diagnosis = NoDiagnosis
    /\ healed_config = NoneD
    /\ healed_yaml = NoneD
    /\ message = ""
    /\ attempts = 0
    /\ successes = 0
    /\ incidents = <<>>
    /\ log = <<>>
    /\ calls = <<>>
    /\ utcnow = 0
    /\ sink_ok = TRUE
    /\ file = <<>>
    /\ writers = <<>>

\* the invocations begun so far: each adds one Incident row for its first
\* validation
Uploads ==
    Cardinality({i \in DOMAIN incidents :
                    incidents[i].incident_type \in {"run", "schema_drift", "data_quality"}})

\* main.py 144-206: the response is returned and the user's next request
\* arrives; metrics = user.metrics is the row the earlier requests committed
NextUpload ==
    /\ pc = "done"
    /\ Uploads < MaxUploads
    /\ yaml_text' \in {safe_dump(c) : c \in UploadConfigs}
    /\ config' = safe_load(yaml_text')
    /\ df' \in UploadFrames
    /\ pc' = "run_validation"
    /\ e' = NoExc
    /\ e2' = NoExc
    /\ diagnosis' = NoDiagnosis
    /\ healed_config' = NoneD
    /\ healed_yaml' = NoneD
    /\ message' = ""
    /\ calls' = <<>>
    /\ UNCHANGED <<env, attempts, successes, incidents, log>>

NextUploads == Next \/ NextUpload

SpecUploads == InitUploads /\ [][NextUploads]_vars

\* ------------------------------------------------------------- vocabulary
CallsOf(fns) == {i \in DOMAIN calls : calls[i].fn \in fns}
ValidationCalls == CallsOf({"run_validation"})
DiagnosisCalls == CallsOf({"diagnose_schema_drift", "diagnose_dq_issue"})
HealingCalls == CallsOf({"apply_schema_healing", "apply_dq_healing"})
SchemaPathCalls == CallsOf({"diagnose_schema_drift", "apply_schema_healing"})
DqPathCalls == CallsOf({"diagnose_dq_issue", "apply_dq_healing"})

EventTypes(events) == [i \in DOMAIN events |-> events[i].event_type]

\* the events of the first n engine calls, in call order
RECURSIVE EventsOfCalls(_)
EventsOfCalls(n) == IF n = 0 THEN <<>> ELSE EventsOfCalls(n - 1) \o calls[n].events

IsPrefix(s, t) == Len(s) <= Len(t) /\ SubSeq(t, 1, Len(s)) = s

FailureEvent(exc) ==
    IF exc.type = "SchemaDriftError" THEN "schema_drift_detected" ELSE "dq_failure"

\* the required columns of a configuration that a dataset lacks
MissingSet(d, c) == ToSet(build_dq_config(c).required_columns) \ d.columns

\* m lists exactly the missing entries of the required columns, in their order
ListsMissing(m, d, c) ==
    LET req == build_dq_config(c).required_columns IN
    /\ ToSet(m) = MissingSet(d, c)
    /\ Len(m) = Cardinality({p \in DOMAIN req : req[p] \notin d.columns})
    /\ \A i, j \in DOMAIN m : i < j =>
          \E p, q \in DOMAIN req : p < q /\ req[p] = m[i] /\ req[q] = m[j]

RowCountOk(d, c) == d.len >= build_dq_config(c).min_row_count

NullFractionOk(d, c) ==
    LET thr == build_dq_config(c).max_null_fraction IN
    ~("sales_amount" \in d.columns /\ d.len > 0 /\ d.isna * thr[2] > thr[1] * d.len)

\* the checks that, run on their own, report a violation
Violated(d, c) ==
    {k \in 1..7 : Checks(d, build_dq_config(c), pipeline_name)[k].events # <<>>}

Earliest(S) == CHOOSE k \in S : \A j \in S : k <= j

Succeeded == pc = "done" /\ message = "passed_without_healing"
HealedSuccess == pc = "done" /\ message \in {"schema_drift_healed", "data_quality_healed"}
HealedFailure ==
    pc = "done" /\ message \in {"validation_failed_after_healing", "data_quality_still_failing"}

\* ------------------------------------------------------------------ claims

\* C1 as stated: every validation of a dataset that lacks required columns fails
\* with schema_drift listing exactly the missing ones, and logs no other failure,
\* whatever other rules the dataset violates.
C1_SchemaDriftWhateverElseFails ==
    \A i \in ValidationCalls :
        MissingSet(df, calls[i].config_in) # {} =>
            /\ calls[i].exc.type = "SchemaDriftError"
            /\ ListsMissing(calls[i].exc.missing_columns, df, calls[i].config_in)
            /\ EventTypes(calls[i].events) = <<"schema_drift_detected">>

\* C1 amended: a dataset that passes the row-count and null-fraction checks and
\* lacks required columns fails with schema_drift listing exactly the missing
\* ones in required_columns order, and no other failure is logged even when
\* uniqueness, types, allowed values or freshness are violated as well.
C1_SchemaDriftAfterRowAndNullChecks ==
    \A i \in ValidationCalls :
        (/\ MissingSet(df, calls[i].config_in) # {}
         /\ RowCountOk(df, calls[i].config_in)
         /\ NullFractionOk(df, calls[i].config_in)) =>
            /\ calls[i].exc.type = "SchemaDriftError"
            /\ ListsMissing(calls[i].exc.missing_columns, df, calls[i].config_in)
            /\ EventTypes(calls[i].events) = <<"schema_drift_detected">>
            /\ calls[i].events[1].missing_columns = calls[i].exc.missing_columns

\* two required columns are missing and uniqueness and allowed values are
\* violated too; the validation reported the schema drift
C1_Witness ==
    \E i \in ValidationCalls :
        /\ Cardinality(MissingSet(df, calls[i].config_in)) = 2
        /\ RowCountOk(df, calls[i].config_in)
        /\ NullFractionOk(df, calls[i].config_in)
        /\ {4, 6} \subseteq Violated(df, calls[i].config_in)
        /\ calls[i].exc.type = "SchemaDriftError"

\* C2: when a dataset violates several rules at once, the validation raises the
\* failure of the earliest violated check in the order row count, null fraction,
\* schema, uniqueness, types, allowed values, freshness, and the only event it
\* logs is that check's.
C2_FirstViolationInOrder ==
    \A i \in ValidationCalls :
        LET V == Violated(df, calls[i].config_in)
            cs == Checks(df, build_dq_config(calls[i].config_in), pipeline_name)
        IN Cardinality(V) >= 2 =>
            /\ calls[i].exc # NoExc
            /\ calls[i].exc = cs[Earliest(V)].exc
            /\ calls[i].events = cs[Earliest(V)].events
            /\ Len(calls[i].events) = 1

\* null fraction, schema and uniqueness are all violated: null_fraction is raised
C2_Witness ==
    \E i \in ValidationCalls :
        /\ {2, 3, 4} \subseteq Violated(df, calls[i].config_in)
        /\ 1 \notin Violated(df, calls[i].config_in)
        /\ calls[i].exc.kind = "null_fraction"

\* C3 as stated: a healing call leaves the caller's configuration object as it
\* was before the call.
C3_HealingLeavesCallerConfig ==
    \A i \in HealingCalls : calls[i].config_out = calls[i].config_in

\* C4 as stated: with a freshness rule, a date column that parses, all earlier
\* checks passing and a latest date older than max_days_delay, the validation
\* raises a freshness failure.
C4_StaleDataFailsValidation ==
    \A i \in ValidationCalls :
        LET cfg == build_dq_config(calls[i].config_in) IN
        (/\ cfg.freshness_date_column # NoneS
         /\ cfg.freshness_date_column \in df.columns
         /\ df.to_datetime_ok
         /\ Violated(df, calls[i].config_in) \cap (1..6) = {}
         /\ df.delta_days > cfg.freshness_max_days_delay) =>
            /\ calls[i].exc.type = "DataQualityError"
            /\ calls[i].exc.kind = "freshness"

\* C5: an invocation runs the rule-check engine at most twice, diagnoses at most
\* once and heals at most once; after the re-validation the handler is done and
\* takes no further step, and a failed re-validation ends in HealedFailure.
C5_AtMostOneHealingPass ==
    /\ Cardinality(ValidationCalls) <= 2
    /\ Cardinality(DiagnosisCalls) <= 1
    /\ Cardinality(HealingCalls) <= 1
    /\ Cardinality(ValidationCalls) = 2 => pc = "done" /\ ~ENABLED Next
    /\ e2 # NoExc => HealedFailure /\ Cardinality(ValidationCalls) = 2

\* the re-validation after a data-quality healing failed
C5_Witness ==
    /\ HealedFailure
    /\ e.type = "DataQualityError"
    /\ e2 # NoExc
    /\ Cardinality(HealingCalls) = 1

\* C6: when the first validation succeeds the handler ends in Succeeded having
\* made no other call: nothing is diagnosed, nothing is healed, no diagnosis,
\* dq_diagnosis or healing_applied event is logged and there is no healed
\* configuration.
C6_SuccessNeedsNoHealing ==
    (calls # <<>> /\ calls[1].exc = NoExc) =>
        /\ Succeeded
        /\ Len(calls) = 1
        /\ diagnosis = NoDiagnosis
        /\ healed_config = NoneD
        /\ healed_yaml = NoneD
        /\ \A k \in DOMAIN log :
              log[k].event_type \notin {"diagnosis", "dq_diagnosis", "healing_applied"}
        /\ attempts = 0 /\ successes = 0

C6_Witness ==
    /\ Succeeded
    /\ calls[1].exc = NoExc
    /\ df.len > 0

\* C7: the schema path and the data-quality path never both run in one
\* invocation; the path is the one of the first failure's family, also when the
\* re-validation raises a failure of the other family.
C7_PathsMutuallyExclusive ==
    /\ SchemaPathCalls = {} \/ DqPathCalls = {}
    /\ SchemaPathCalls # {} => e.type = "SchemaDriftError"
    /\ DqPathCalls # {} => e.type = "DataQualityError"
    /\ (pc = "done" /\ e.type = "SchemaDriftError") =>
          [k \in 1..Len(calls) |-> calls[k].fn] =
             <<"run_validation", "diagnose_schema_drift", "apply_schema_healing",
               "run_validation">>
    /\ (pc = "done" /\ e.type = "DataQualityError") =>
          [k \in 1..Len(calls) |-> calls[k].fn] =
             <<"run_validation", "diagnose_dq_issue", "apply_dq_healing",
               "run_validation">>

\* a schema drift was healed and the re-validation raised a data-quality failure
C7_Witness ==
    /\ pc = "done"
    /\ e.type = "SchemaDriftError"
    /\ e2.type = "DataQualityError"
    /\ DqPathCalls = {}

\* C8: the first candidate is no_safe_fix exactly for a schema drift without
\* date_of_sale among the missing columns and for a data-quality failure other
\* than null_fraction; then healing leaves the configuration as submitted, the
\* handler still re-validates, the re-validation raises the first failure again
\* and the outcome is HealedFailure.
C8_NoSafeFixEndsUnresolved ==
    diagnosis # NoDiagnosis =>
        LET no_fix == diagnosis.suggested_actions[1].type = "no_safe_fix" IN
        /\ no_fix <=>
              \/ e.type = "SchemaDriftError" /\ ~Contains(e.missing_columns, "date_of_sale")
              \/ e.type = "DataQualityError" /\ e.kind # "null_fraction"
        /\ Len(diagnosis.suggested_actions) = 1
        /\ (no_fix /\ pc = "done") =>
              /\ config = safe_load(yaml_text)
              /\ healed_config = safe_load(yaml_text)
              /\ \A i \in HealingCalls : calls[i].events = <<>>
              /\ Cardinality(ValidationCalls) = 2
              /\ e2 = e
              /\ HealedFailure
              /\ successes = 0

\* a schema drift that misses a column other than date_of_sale ended unresolved
C8_Witness ==
    /\ HealedFailure
    /\ e.type = "SchemaDriftError"
    /\ diagnosis.root_cause = "schema_drift"
    /\ diagnosis.suggested_actions[1].type = "no_safe_fix"
    /\ e2 = e

\* C9: healing a null_fraction failure sets max_null_fraction to a value not
\* below the prior threshold, not below the observed fraction and not above 1:
\* observed + 0.05, raised to the prior threshold and capped at 1.
C9_NullFractionHealingMonotonic ==
    \A i \in CallsOf({"apply_dq_healing"}) :
        e.kind = "null_fraction" =>
            LET prior == build_dq_config(calls[i].config_in).max_null_fraction
                new == build_dq_config(calls[i].config_out).max_null_fraction
                raised == FAdd(e.observed, F(5, 100))
            IN /\ FLe(F(0, 1), e.observed) /\ FLe(e.observed, F(1, 1))
               /\ FLe(prior, new)
               /\ FLe(e.observed, new)
               /\ FLe(new, F(1, 1))
               /\ new = IF FLe(F(1, 1), raised) THEN F(1, 1)
                        ELSE IF FLe(prior, raised) THEN raised ELSE prior
               /\ build_dq_config(calls[i].ret).max_null_fraction = new

\* every cell of sales_amount is missing: observed + 0.05 is capped at 1
C9_Witness ==
    \E i \in CallsOf({"apply_dq_healing"}) :
        /\ e.kind = "null_fraction"
        /\ e.observed = F(1, 1)
        /\ build_dq_config(calls[i].config_out).max_null_fraction = F(1, 1)
        /\ FLt(build_dq_config(calls[i].config_in).max_null_fraction, F(1, 1))

\* C10: a dataset whose only violation is the null fraction of sales_amount
\* fails the first validation with null_fraction, the threshold is healed and
\* the re-validation of the same dataset passes (HealedSuccess).
C10_NullFractionHealedPasses ==
    (pc = "done" /\ Violated(df, safe_load(yaml_text)) = {2}) =>
        /\ e.kind = "null_fraction"
        /\ e.column = "sales_amount"
        /\ [k \in 1..Len(calls) |-> calls[k].fn] =
              <<"run_validation", "diagnose_dq_issue", "apply_dq_healing", "run_validation">>
        /\ calls[3].events # <<>>
        /\ calls[4].exc = NoExc
        /\ e2 = NoExc
        /\ HealedSuccess
        /\ message = "data_quality_healed"
        /\ successes = 1

\* half of sales_amount is missing against a threshold of 0.05
C10_Witness ==
    /\ HealedSuccess
    /\ Violated(df, safe_load(yaml_text)) = {2}
    /\ e.observed = F(1, 2)
    /\ e.threshold = F(5, 100)
    /\ build_dq_config(healed_config).max_null_fraction = F(55, 100)

\* C11: a dataset that has txn_date, lacks only date_of_sale among the required
\* columns and satisfies every other rule fails the first validation with
\* schema_drift; the diagnosis proposes exactly one action, schema_update
\* date_of_sale -> txn_date; the re-validation against the healed
\* configuration succeeds (HealedSuccess).
C11_RenamedDateColumnHealed ==
    LET original == safe_load(yaml_text)
        required == build_dq_config(original).required_columns IN
    (/\ pc = "done"
     /\ Violated(df, original) = {3}
     /\ MissingSet(df, original) = {"date_of_sale"}
     /\ "txn_date" \in df.columns) =>
        /\ e.type = "SchemaDriftError"
        /\ e.missing_columns = <<"date_of_sale">>
        /\ diagnosis.root_cause = "schema_drift"
        /\ diagnosis.suggested_actions =
              <<[type |-> "schema_update", from |-> "date_of_sale", to |-> "txn_date"]>>
        /\ build_dq_config(healed_config).required_columns =
              [i \in DOMAIN required |->
                  IF required[i] = "date_of_sale" THEN "txn_date" ELSE required[i]]
        /\ calls[Len(calls)].fn = "run_validation"
        /\ calls[Len(calls)].config_in = healed_config
        /\ calls[Len(calls)].exc = NoExc
        /\ e2 = NoExc
        /\ HealedSuccess
        /\ message = "schema_drift_healed"

\* the default required columns against a dataset that carries txn_date instead
\* of date_of_sale
C11_Witness ==
    /\ HealedSuccess
    /\ Violated(df, safe_load(yaml_text)) = {3}
    /\ build_dq_config(safe_load(yaml_text)).required_columns =
          <<"transaction_id", "sales_amount", "date_of_sale">>
    /\ {"transaction_id", "sales_amount", "txn_date"} \subseteq df.columns
    /\ "date_of_sale" \notin df.columns
    /\ build_dq_config(healed_config).required_columns =
          <<"transaction_id", "sales_amount", "txn_date">>

\* C13: with min_row_count = N, a validation of a dataset of fewer than N rows
\* (N-1 in particular) fails with row_count, observed = the row count and
\* threshold = N; a validation of a dataset of N rows or more raises no
\* row_count failure and logs no row_count event.
C13_RowCountBoundInclusive ==
    \A i \in ValidationCalls :
        LET N == build_dq_config(calls[i].config_in).min_row_count IN
        /\ df.len < N =>
              /\ calls[i].exc.type = "DataQualityError"
              /\ calls[i].exc.kind = "row_count"
              /\ calls[i].exc.observed = F(df.len, 1)
              /\ calls[i].exc.threshold = F(N, 1)
              /\ Len(calls[i].events) = 1
              /\ calls[i].events[1].event_type = "dq_failure"
              /\ calls[i].events[1].reason = "row_count"
        /\ df.len >= N =>
              /\ calls[i].exc.kind # "row_count"
              /\ \A k \in DOMAIN calls[i].events :
                    Get(calls[i].events[k], "reason", NoneS) # "row_count"

\* N = 2: a dataset of N-1 = 1 row has failed with row_count
C13_Witness ==
    /\ Len(calls) >= 1
    /\ build_dq_config(calls[1].config_in).min_row_count = 2
    /\ df.len = 1
    /\ calls[1].exc.kind = "row_count"
    /\ calls[1].exc.observed = F(1, 1)
    /\ calls[1].exc.threshold = F(2, 1)

\* C14: a validation of a dataset that satisfies every configured rule appends
\* exactly one event, validation_success carrying the row count, and no
\* dq_failure or schema_drift_detected event.
C14_SuccessLogsOneEvent ==
    \A i \in ValidationCalls :
        Violated(df, calls[i].config_in) = {} =>
            /\ calls[i].exc = NoExc
            /\ Len(calls[i].events) = 1
            /\ calls[i].events[1].event_type = "validation_success"
            /\ calls[i].events[1].rows = df.len
            /\ calls[i].events[1].pipeline_name = pipeline_name

\* a dataset of two rows passes the default rules at once
C14_Witness ==
    /\ Succeeded
    /\ df.len = 2
    /\ Violated(df, safe_load(yaml_text)) = {}
    /\ build_dq_config(safe_load(yaml_text)).min_row_count = 2
    /\ EventTypes(log) = <<"validation_success">>
    /\ log[1].rows = 2

\* C16: the log holds the events of every engine call made so far, in call
\* order, and the outcome is set only by the last step.  When the first
\* validation has failed and the invocation is over, the log reads: the failure
\* event of the first validation, the diagnosis event of the path taken,
\* healing_applied exactly when the diagnosis proposed an applicable action, and
\* last the terminal event of the re-validation (validation_success, or the
\* failure event of the exception it raised).
C16_LogPrecedesOutcome ==
    /\ log = EventsOfCalls(Len(calls))
    /\ message # "" => pc = "done"
    /\ (pc = "done" /\ e # NoExc) =>
          LET types == EventTypes(log)
              schema == e.type = "SchemaDriftError"
              applied == diagnosis.suggested_actions[1].type =
                            (IF schema THEN "schema_update" ELSE "dq_update_max_null")
              rest == SubSeq(types, IF applied THEN 4 ELSE 3, Len(types))
          IN /\ types[1] = FailureEvent(e)
             /\ log[1] = calls[1].events[1]
             /\ types[2] = IF schema THEN "diagnosis" ELSE "dq_diagnosis"
             /\ log[2].suggested_actions = diagnosis.suggested_actions
             /\ IF applied
                THEN /\ types[3] = "healing_applied"
                     /\ {k \in DOMAIN types : types[k] = "healing_applied"} = {3}
                ELSE \A k \in DOMAIN types : types[k] # "healing_applied"
             /\ rest # <<>>
             /\ rest[Len(rest)] =
                   IF e2 = NoExc THEN "validation_success" ELSE FailureEvent(e2)
             /\ \A k \in 1..(Len(rest) - 1) : rest[k] = "dq_failure"
             /\ message # ""

\* a null-fraction failure healed: the four events in order
C16_Witness ==
    /\ pc = "done"
    /\ message = "data_quality_healed"
    /\ EventTypes(log) = <<"dq_failure", "dq_diagnosis", "healing_applied",
                           "validation_success">>
    /\ log[1].reason = "null_fraction"

\* C19: every step leaves the events already in the log as they are and in the
\* same order: the log before the step is a prefix of the log after it.
C19_LogAppendOnly == [][IsPrefix(log, log')]_vars

\* four operations have run; three of them appended an event after the first
C19_Witness ==
    /\ pc = "done"
    /\ Len(calls) = 4
    /\ Len(log) = 3
    /\ calls[3].events = <<>>
    /\ EventTypes(log) = <<"schema_drift_detected", "diagnosis", "schema_drift_detected">>

\* C20: a diagnosis call leaves the configuration it is given as it was, and
\* appends exactly one event: diagnosis from diagnose_schema_drift,
\* dq_diagnosis from diagnose_dq_issue, carrying the diagnosis it returns.
C20_DiagnosisLeavesConfig ==
    \A i \in DiagnosisCalls :
        /\ calls[i].config_out = calls[i].config_in
        /\ calls[i].exc = NoExc
        /\ Len(calls[i].events) = 1
        /\ calls[i].events[1].event_type =
              (IF calls[i].fn = "diagnose_schema_drift" THEN "diagnosis" ELSE "dq_diagnosis")
        /\ calls[i].events[1].suggested_actions = calls[i].ret.suggested_actions
        /\ calls[i].events[1].root_cause = calls[i].ret.root_cause

\* both diagnosis functions have been called on a configuration with rules
C20_Witness ==
    /\ Len(calls) >= 2
    /\ calls[2].fn = "diagnose_dq_issue"
    /\ "data_quality" \in DOMAIN calls[2].config_in
    /\ calls[2].config_out = calls[2].config_in
    /\ EventTypes(calls[2].events) = <<"dq_diagnosis">>
    /\ calls[2].ret.suggested_actions[1].type = "dq_update_max_null"

\* the first suggested action of a diagnosis is the one the healing function
\* fn applies
Applicable(fn, d) ==
    LET actions == Get(d, "suggested_actions", <<>>) IN
    /\ actions # <<>>
    /\ Get(actions[1], "type", NoneS) =
          (IF fn = "apply_schema_healing" THEN "schema_update" ELSE "dq_update_max_null")

\* C12: a healing function called twice in a row with the same diagnosis: the
\* second call is given the configuration the first returned, and returns and
\* leaves the same configuration.
C12_HealingIdempotent ==
    \A i \in HealingCalls :
        (i + 1 \in DOMAIN calls /\ calls[i + 1].fn = calls[i].fn) =>
            /\ calls[i + 1].config_in = calls[i].ret
            /\ calls[i + 1].ret = calls[i].ret
            /\ calls[i + 1].config_out = calls[i].config_out

\* a rename, or a threshold, applied twice in a row, changing the
\* configuration the first time only
C12_Witness ==
    /\ Len(calls) = 2
    /\ calls[1].fn = calls[2].fn
    /\ calls[1].fn \in {"apply_schema_healing", "apply_dq_healing"}
    /\ Applicable(calls[1].fn, diagnosis)
    /\ calls[1].config_out # calls[1].config_in
    /\ calls[2].ret = calls[1].ret

\* C15: a validation that raises a failure has appended exactly one event,
\* schema_drift_detected for a SchemaDriftError and dq_failure for a
\* DataQualityError; a healing call whose diagnosis carries an applicable first
\* action has appended exactly one healing_applied event; each such event has
\* an event_type and a timestamp of the UTC clock; a healing call given an
\* empty action list or another first action has appended nothing.
C15_OneEventPerFailureOrHealing ==
    LET Stamped(ev) == /\ {"timestamp", "event_type"} \subseteq DOMAIN ev
                       /\ ev.timestamp = Timestamp(utcnow)
                       /\ ev.timestamp[2] = "Z"
        n == Len(calls)
    IN /\ \A i \in ValidationCalls :
             calls[i].exc # NoExc =>
                /\ Len(calls[i].events) = 1
                /\ calls[i].events[1].event_type = FailureEvent(calls[i].exc)
                /\ Stamped(calls[i].events[1])
       /\ n \in HealingCalls =>
             IF Applicable(calls[n].fn, diagnosis)
             THEN /\ Len(calls[n].events) = 1
                  /\ calls[n].events[1].event_type = "healing_applied"
                  /\ Stamped(calls[n].events[1])
             ELSE /\ calls[n].events = <<>>
                  /\ calls[n].config_out = calls[n].config_in

\* a failed validation, then a healing call that applies nothing, then one that
\* applies the threshold the diagnosis proposes
C15_Witness ==
    /\ Len(calls) = 3
    /\ calls[1].fn = "run_validation" /\ calls[1].exc.kind = "null_fraction"
    /\ EventTypes(calls[1].events) = <<"dq_failure">>
    /\ calls[2].fn = "apply_schema_healing" /\ calls[2].events = <<>>
    /\ calls[3].fn = "apply_dq_healing"
    /\ EventTypes(calls[3].events) = <<"healing_applied">>

\* C17 as stated: recording an event never fails the caller.  Whether or not
\* the sink can be written, no engine call raises the sink's error, the
\* invocation is not aborted, and an invocation that ends has an outcome.
C17_LoggingNeverFailsCaller ==
    /\ \A i \in DOMAIN calls : calls[i].exc.type # "OSError"
    /\ pc # "error"
    /\ pc = "done" => message # ""

\* the records of the file a writer's invocation wrote, in file order
RecordsOf(w) ==
    LET records == [k \in 1..(Len(file) \div 2) |-> file[2 * k - 1].json]
        Mine(r) == r.pipeline_name = w
    IN SelectSeq(records, Mine)

\* C18: with writers appending concurrently the file is always a sequence of
\* whole records, each the JSON object followed by its newline; every record a
\* writer has written is in the file once, unbroken, and the records of one
\* writer are in the order it wrote them.  The order across writers is free.
C18_AppendsAtomic ==
    /\ Len(file) % 2 = 0
    /\ \A k \in DOMAIN file :
          IF k % 2 = 1 THEN file[k].text = "json" ELSE file[k] = Newline
    /\ \A w \in Writers : RecordsOf(w) = writers[w].written
    /\ \A k \in 1..(Len(file) \div 2) : file[2 * k - 1].json.pipeline_name \in Writers

\* w1 opened the empty file first; w2's record was then appended while w1 held
\* its own in the buffer; w1's record followed it at the end
C18_Witness ==
    /\ Len(file) = 4
    /\ file[1].json.pipeline_name = "w2"
    /\ file[3].json.pipeline_name = "w1"
    /\ writers["w1"].pos = 0
    /\ writers["w2"].pos = 0
    /\ writers["w1"].written = <<file[3].json>>

\* configuration c2 is c1 but for the entry k2 of its section k: every other
\* section, and every other entry of section k, is the same
SameExcept(c1, c2, k, k2) ==
    LET s1 == Get(c1, k, <<>>)
        s2 == Get(c2, k, <<>>)
    IN /\ DOMAIN c2 = DOMAIN c1 \cup {k}
       /\ \A x \in DOMAIN c1 \ {k} : c2[x] = c1[x]
       /\ DOMAIN s2 = DOMAIN s1 \cup {k2}
       /\ \A y \in DOMAIN s1 \ {k2} : s2[y] = s1[y]

\* C21: a healing call that applies schema_update leaves a configuration that
\* differs from the one it was given in schema.required_columns only; the new
\* list has the length of the old one, `to` wherever the old one had `from`
\* and the old entry everywhere else.  A call that applies dq_update_max_null
\* leaves a configuration that differs in data_quality.max_null_fraction
\* only, which is the proposed threshold.  The configuration returned is the
\* one left, and a call that applies nothing leaves the configuration as it was.
C21_HealingChangesOnlyItsEntry ==
    LET n == Len(calls) IN
    n \in HealingCalls =>
        LET before == calls[n].config_in
            after == calls[n].config_out
            action == diagnosis.suggested_actions[1]
        IN /\ calls[n].ret = after
           /\ IF ~Applicable(calls[n].fn, diagnosis)
              THEN after = before
              ELSE IF calls[n].fn = "apply_schema_healing"
              THEN LET old == Get(Get(before, "schema", <<>>), "required_columns", <<>>)
                       new == after.schema.required_columns
                   IN /\ SameExcept(before, after, "schema", "required_columns")
                      /\ Len(new) = Len(old)
                      /\ \A i \in DOMAIN old :
                            new[i] = IF old[i] = action.from THEN action.to ELSE old[i]
              ELSE /\ SameExcept(before, after, "data_quality", "max_null_fraction")
                   /\ after.data_quality.max_null_fraction = action.new_threshold

\* the rename applied to a configuration whose freshness rule, required columns
\* and other rules name date_of_sale: only the required columns changed
C21_Witness ==
    LET n == Len(calls) IN
    /\ n >= 1
    /\ calls[n].fn = "apply_schema_healing"
    /\ Applicable("apply_schema_healing", diagnosis)
    /\ build_dq_config(calls[n].config_in).required_columns =
          <<"transaction_id", "sales_amount", "date_of_sale">>
    /\ build_dq_config(calls[n].config_out).required_columns =
          <<"transaction_id", "sales_amount", "txn_date">>
    /\ Get(calls[n].config_in, "freshness", <<>>) = Freshness(1)
    /\ Get(calls[n].config_out, "freshness", <<>>) = Freshness(1)
    /\ build_dq_config(calls[n].config_out).column_types # <<>>

\* C22 as stated: every validation call appends exactly one event, and that
\* event agrees with what the call returns: the failure event of the exception
\* it raises, or validation_success when it returns normally; a call that
\* returns normally has appended no dq_failure or schema_drift_detected event.
C22_LogAgreesWithOutcome ==
    \A i \in ValidationCalls :
        /\ Len(calls[i].events) = 1
        /\ calls[i].events[1].event_type =
              (IF calls[i].exc = NoExc THEN "validation_success"
               ELSE FailureEvent(calls[i].exc))
        /\ calls[i].exc = NoExc =>
              \A k \in DOMAIN calls[i].events :
                  calls[i].events[k].event_type \notin {"dq_failure", "schema_drift_detected"}

\* C23: over one user's uploads, starting from attempts = 0 and successes = 0,
\* every step leaves successes <= attempts; attempts grows by one in the step
\* that runs a first validation which fails, and in no other step; successes
\* grows by one in the step that runs a re-validation which passes, and in no
\* other step, and that step follows the attempts increment of the same
\* invocation.
C23_CountersStep ==
    LET first == pc = "run_validation"
        second == pc \in {"revalidate_schema", "revalidate_dq"}
        raised == calls'[Len(calls')].exc # NoExc
    IN /\ successes' <= attempts'
       /\ attempts' = attempts + (IF first /\ raised THEN 1 ELSE 0)
       /\ successes' = successes + (IF second /\ ~raised THEN 1 ELSE 0)
       /\ successes' > successes =>
             /\ calls[1].fn = "run_validation" /\ calls[1].exc # NoExc
             /\ attempts > successes

C23_CountersFollowOutcomes == [][C23_CountersStep]_vars

\* three uploads: one passed at once, one was healed, one failed after healing
C23_Witness ==
    /\ pc = "done"
    /\ Uploads = 3
    /\ attempts = 2
    /\ successes = 1
    /\ \E i \in DOMAIN incidents : incidents[i] = Incident("run", "success")

====
